---- MODULE Spec2Model ----
(***************************************************************************)
(* Model of vocode/streaming/agent/utils.py: the streaming sentence        *)
(* collator collate_response_async and the two buffer helpers              *)
(* find_last_punctuation and get_sentence_from_buffer.                     *)
(*                                                                         *)
(* A Python string is modelled as a sequence of one-character strings, so  *)
(* "$5." is <<"$", "5", ".">> and "" is <<>>.                              *)
(***************************************************************************)
EXTENDS Integers, Sequences, FiniteSets, TLC

VARIABLES
    sentence_endings,      \* parameter of collate_response_async
    get_functions,         \* parameter of collate_response_async
    buffer,                \* local: text not yet yielded
    function_buffer,       \* local: concatenated fragment texts
    prev_ends_with_money,  \* local: ends_with_money of the previous str token
    pc,                    \* "loop" while gen is iterated, "done" after return
    consumed,              \* history: the tokens gen has produced so far
    out,                   \* history: everything yielded so far, in order
    yielded,               \* history: what the last step yielded
    seen_list_item,        \* history: possible_list_item was true at some token
    helper_buffer,         \* argument given to the buffer helpers
    helper_result          \* what the last helper call returned

vars == <<sentence_endings, get_functions, buffer, function_buffer,
          prev_ends_with_money, pc, consumed, out, yielded, seen_list_item,
          helper_buffer, helper_result>>

segmenter_vars == <<sentence_endings, get_functions, buffer, function_buffer,
                    prev_ends_with_money, pc, consumed, out, yielded,
                    seen_list_item>>

helper_vars == <<helper_buffer, helper_result>>

(***************************************************************************)
(* Bounds of the model.                                                    *)
(***************************************************************************)
MaxUnits == 3

MaxBufLen == 3

(***************************************************************************)
(* Constants of the program and of the Python library it calls.            *)
(***************************************************************************)
SENTENCE_ENDINGS == << <<".">>, <<"!">>, <<"?">>, <<"\n">> >>

list_item_ending_pattern == { <<"\n">> }

\* the characters matched by \d
Digits == {"0", "1", "2", "3", "4", "5", "6", "7", "8", "9"}

\* the characters removed by str.strip()
Whitespace == {" ", "\t", "\n", "\r", "\f"}

(***************************************************************************)
(* Values: tokens of gen, yielded objects, and Python's None / int / str.  *)
(***************************************************************************)
Str(s) == [kind |-> "str", text |-> s]

FunctionFragment(s) == [kind |-> "FunctionFragment", text |-> s]

FunctionCall(s) == [kind |-> "FunctionCall", text |-> s]

None == [kind |-> "NoneType"]

IntVal(i) == [kind |-> "int", value |-> i]

\* the helper result before any helper was called
NotCalled == [fn |-> "not called", ret |-> None]

\* bool(x) for an Optional[int]
Truthy(x) == x.kind = "int" /\ x.value # 0

(***************************************************************************)
(* String operations of Python, on sequences of characters.                *)
(***************************************************************************)
SetMax(S) == CHOOSE m \in S : \A x \in S : x <= m

SetMin(S) == CHOOSE m \in S : \A x \in S : m <= x

\* s[a:b] for 0 <= a, 0 <= b (Python slice, 0-based, b exclusive)
Slice(s, a, b) == SubSeq(s, a + 1, IF b < Len(s) THEN b ELSE Len(s))

\* the 0-based positions at which sub occurs in s
Occurrences(sub, s) ==
    {i \in 0..(Len(s) - Len(sub)) : SubSeq(s, i + 1, i + Len(sub)) = sub}

\* s.startswith(p)
startswith(s, p) == Len(p) <= Len(s) /\ SubSeq(s, 1, Len(p)) = p

\* s.rfind(sub): highest index of an occurrence, -1 when there is none
rfind(s, sub) ==
    IF Occurrences(sub, s) = {} THEN -1 ELSE SetMax(Occurrences(sub, s))

\* strip written as lstrip: trailing whitespace stays
strip_leading_only(s) ==
    LET keep == {i \in 1..Len(s) : s[i] \notin Whitespace}
    IN  IF keep = {} THEN <<>> ELSE SubSeq(s, SetMin(keep), Len(s))

\* s.strip(): s without its leading and trailing whitespace
strip(s) ==
    LET keep == {i \in 1..Len(s) : s[i] \notin Whitespace}
    IN  IF keep = {} THEN <<>> ELSE SubSeq(s, SetMin(keep), SetMax(keep))

(***************************************************************************)
(* The regular expressions of collate_response_async.                      *)
(***************************************************************************)
\* "|".join(map(re.escape, sentence_endings)) as its set of alternatives;
\* the join of an empty list is the empty pattern, which matches "".
sentence_endings_pattern(endings) ==
    IF Len(endings) = 0 THEN { <<>> }
    ELSE {endings[i] : i \in 1..Len(endings)}

\* bool(re.findall(pattern, token)) for an alternation of literals
findall(pattern, token) == \E alt \in pattern : Occurrences(alt, token) # {}

\* bool(re.match(r"^\d+[ .]", buffer))
possible_list_item(buf) ==
    \E n \in 1..(Len(buf) - 1) :
        /\ \A i \in 1..n : buf[i] \in Digits
        /\ buf[n + 1] \in {" ", "."}

\* the money pattern with its dot escaped: \$\d+\.$
ends_with_money_escaped_dot(buf) ==
    \E p \in 1..Len(buf) : \E q \in (p + 1)..(Len(buf) - 1) :
        /\ buf[p] = "$"
        /\ \A i \in (p + 1)..q : buf[i] \in Digits
        /\ buf[q + 1] = "."
        /\ \/ q + 1 = Len(buf)
           \/ q + 2 = Len(buf) /\ buf[Len(buf)] = "\n"

\* bool(re.findall(r"\$\d+.$", buffer)): "." is any character but a newline,
\* "$" is the end of the string or the position before a final newline.
ends_with_money(buf) ==
    \E p \in 1..Len(buf) : \E q \in (p + 1)..(Len(buf) - 1) :
        /\ buf[p] = "$"
        /\ \A i \in (p + 1)..q : buf[i] \in Digits
        /\ buf[q + 1] # "\n"
        /\ \/ q + 1 = Len(buf)
           \/ q + 2 = Len(buf) /\ buf[Len(buf)] = "\n"

(***************************************************************************)
(* collate_response_async, one piece per block of the loop body.           *)
(***************************************************************************)
\* "if not token": an empty str is falsy; a FunctionFragment object is truthy
\* whatever its text, and appending its empty text changes nothing.
falsy(token) == token.kind = "str" /\ token.text = <<>>

\* the money-boundary flush without its test of the token's first character
MoneyBoundaryFlush_no_space_test(buf, prev, token) ==
    IF prev
    THEN [buffer |-> <<>>, yields |-> << Str(strip(buf)) >>]
    ELSE [buffer |-> buf, yields |-> <<>>]

\* the money-boundary flush without its test of prev_ends_with_money
MoneyBoundaryFlush_any_space(buf, prev, token) ==
    IF startswith(token, <<" ">>)
    THEN [buffer |-> <<>>, yields |-> << Str(strip(buf)) >>]
    ELSE [buffer |-> buf, yields |-> <<>>]

\* the money-boundary flush without its "buffer = ''"
MoneyBoundaryFlush_no_reset(buf, prev, token) ==
    IF prev /\ startswith(token, <<" ">>)
    THEN [buffer |-> buf, yields |-> << Str(strip(buf)) >>]
    ELSE [buffer |-> buf, yields |-> <<>>]

\* the money-boundary flush: the buffer after it and what it yields
MoneyBoundaryFlush(buf, prev, token) ==
    IF prev /\ startswith(token, <<" ">>)
    THEN [buffer |-> <<>>, yields |-> << Str(strip(buf)) >>]
    ELSE [buffer |-> buf, yields |-> <<>>]

\* the test of the boundary flush without the list-item case
boundary_found_no_list_item(buf, token, endings) ==
    findall(sentence_endings_pattern(endings), token)

\* the test of the boundary flush: the pattern is chosen by the buffer, and
\* searched in the token
boundary_found(buf, token, endings) ==
    findall(IF possible_list_item(buf) THEN list_item_ending_pattern
            ELSE sentence_endings_pattern(endings), token)

\* the boundary flush without its test of ends_with_money
BoundaryFlush_ignoring_money(buf, token, endings) ==
    IF boundary_found(buf, token, endings)
    THEN [buffer |-> <<>>,
          yields |-> IF strip(buf) # <<>> THEN << Str(strip(buf)) >> ELSE <<>>]
    ELSE [buffer |-> buf, yields |-> <<>>]

\* the boundary flush without its "buffer = ''"
BoundaryFlush_no_reset(buf, token, endings) ==
    IF boundary_found(buf, token, endings) /\ ~ends_with_money(buf)
    THEN [buffer |-> buf,
          yields |-> IF strip(buf) # <<>> THEN << Str(strip(buf)) >> ELSE <<>>]
    ELSE [buffer |-> buf, yields |-> <<>>]

\* the boundary flush, on the buffer that already holds the token
BoundaryFlush(buf, token, endings) ==
    IF boundary_found(buf, token, endings) /\ ~ends_with_money(buf)
    THEN [buffer |-> <<>>,
          yields |-> IF strip(buf) # <<>> THEN << Str(strip(buf)) >> ELSE <<>>]
    ELSE [buffer |-> buf, yields |-> <<>>]

\* the end of the stream without its test of get_functions
EndOfStreamFlush_any_config(buf, fbuf, gf) ==
    (IF strip(buf) # <<>> THEN << Str(strip(buf)) >> ELSE <<>>)
    \o (IF fbuf # <<>> THEN << FunctionCall(fbuf) >> ELSE <<>>)

\* the end of the stream with the function call yielded first
EndOfStreamFlush_call_first(buf, fbuf, gf) ==
    (IF fbuf # <<>> /\ gf THEN << FunctionCall(fbuf) >> ELSE <<>>)
    \o (IF strip(buf) # <<>> THEN << Str(strip(buf)) >> ELSE <<>>)

\* the end of the stream without its test of function_buffer
EndOfStreamFlush_no_buffer_test(buf, fbuf, gf) ==
    (IF strip(buf) # <<>> THEN << Str(strip(buf)) >> ELSE <<>>)
    \o (IF gf THEN << FunctionCall(fbuf) >> ELSE <<>>)

\* what is yielded after the loop
EndOfStreamFlush(buf, fbuf, gf) ==
    (IF strip(buf) # <<>> THEN << Str(strip(buf)) >> ELSE <<>>)
    \o (IF fbuf # <<>> /\ gf THEN << FunctionCall(fbuf) >> ELSE <<>>)

\* "=" written for "+=": the fragment text replaces function_buffer
AppendFragment_replace(fbuf, text) == text

\* the fragment text put in front of function_buffer
AppendFragment_in_front(fbuf, text) == text \o fbuf

\* function_buffer += token.text
AppendFragment(fbuf, text) == fbuf \o text

RECURSIVE Collate(_, _, _, _, _, _)
\* everything the generator yields for the rest of gen, from the given locals
Collate(gen, endings, gf, buf, fbuf, prev) ==
    IF gen = <<>> THEN EndOfStreamFlush(buf, fbuf, gf)
    ELSE LET token == Head(gen)
         IN  IF falsy(token)
             THEN Collate(Tail(gen), endings, gf, buf, fbuf, prev)
             ELSE IF token.kind = "str"
             THEN LET first == MoneyBoundaryFlush(buf, prev, token.text)
                      appended == first.buffer \o token.text
                      second == BoundaryFlush(appended, token.text, endings)
                  IN  first.yields \o second.yields
                      \o Collate(Tail(gen), endings, gf, second.buffer, fbuf,
                                 ends_with_money(appended))
             ELSE Collate(Tail(gen), endings, gf, buf,
                          AppendFragment(fbuf, token.text), prev)

\* the sequence of everything collate_response_async yields for gen
collate_response_async(gen, endings, gf) ==
    Collate(gen, endings, gf, <<>>, <<>>, FALSE)

(***************************************************************************)
(* The inputs: the configurations and the token streams gen may produce.   *)
(***************************************************************************)
EndingConfigs == {SENTENCE_ENDINGS, <<>>}

TokenTexts ==
    { <<>>, <<" ">>, <<"\n">>, <<".">>, <<"$">>, <<"5">>, <<"a">>,
      <<" ", ".">>, <<" ", "a">>, <<"a", ".">>, <<"$", "5">>, <<"5", ".">>,
      <<"$", "5", ".">> }

FragmentTexts == {<<>>, <<"f">>, <<"g">>}

GenericTokens ==
    {Str(t) : t \in TokenTexts} \cup {FunctionFragment(t) : t \in FragmentTexts}

\* "That costs $5", ".00 for", " one."
MoneyChunks ==
    << Str(<<"T", "h", "a", "t", " ", "c", "o", "s", "t", "s", " ", "$", "5">>),
       Str(<<".", "0", "0", " ", "f", "o", "r">>),
       Str(<<" ", "o", "n", "e", ".">>) >>

\* "1.", " Buy milk\n", "2.", " Buy eggs\n"
ListChunks ==
    << Str(<<"1", ".">>),
       Str(<<" ", "B", "u", "y", " ", "m", "i", "l", "k", "\n">>),
       Str(<<"2", ".">>),
       Str(<<" ", "B", "u", "y", " ", "e", "g", "g", "s", "\n">>) >>

\* "Hello", " there.", " How are you?"
PlainChunks ==
    << Str(<<"H", "e", "l", "l", "o">>),
       Str(<<" ", "t", "h", "e", "r", "e", ".">>),
       Str(<<" ", "H", "o", "w", " ", "a", "r", "e", " ", "y", "o", "u", "?">>) >>

ExampleStreams == {MoneyChunks, ListChunks, PlainChunks}

Tokens ==
    GenericTokens \cup UNION {{s[i] : i \in 1..Len(s)} : s \in ExampleStreams}

IsPrefix(s, t) == Len(s) <= Len(t) /\ SubSeq(t, 1, Len(s)) = s

\* gen produces at most MaxUnits generic tokens, or one of the example streams
Admissible(stream) ==
    \/ Len(stream) <= MaxUnits /\ \A i \in 1..Len(stream) : stream[i] \in GenericTokens
    \/ \E s \in ExampleStreams : IsPrefix(stream, s)

(***************************************************************************)
(* The state machine of collate_response_async.                            *)
(***************************************************************************)
Init ==
    /\ sentence_endings \in EndingConfigs
    /\ get_functions \in BOOLEAN
    /\ buffer = <<>>
    /\ function_buffer = <<>>
    /\ prev_ends_with_money = FALSE
    /\ pc = "loop"
    /\ consumed = <<>>
    /\ out = <<>>
    /\ yielded = <<>>
    /\ seen_list_item = FALSE
    /\ helper_buffer = <<>>
    /\ helper_result = NotCalled

\* gen produces token and the loop body runs to its end
Receive(token) ==
    /\ pc = "loop"
    /\ Admissible(Append(consumed, token))
    /\ consumed' = Append(consumed, token)

\* "if not token: continue"
SkipEmpty(token) ==
    /\ Receive(token)
    /\ falsy(token)
    /\ yielded' = <<>>
    /\ UNCHANGED <<sentence_endings, get_functions, buffer, function_buffer,
                   prev_ends_with_money, pc, out, seen_list_item>>
    /\ UNCHANGED helper_vars

\* the isinstance(token, str) branch
StrToken(token) ==
    /\ Receive(token)
    /\ ~falsy(token)
    /\ token.kind = "str"
    /\ LET first == MoneyBoundaryFlush(buffer, prev_ends_with_money, token.text)
           appended == first.buffer \o token.text
           second == BoundaryFlush(appended, token.text, sentence_endings)
       IN  /\ buffer' = second.buffer
           /\ prev_ends_with_money' = ends_with_money(appended)
           /\ yielded' = first.yields \o second.yields
           /\ out' = out \o first.yields \o second.yields
           /\ seen_list_item' = (seen_list_item \/ possible_list_item(appended))
    /\ UNCHANGED <<sentence_endings, get_functions, function_buffer, pc>>
    /\ UNCHANGED helper_vars

\* the isinstance(token, FunctionFragment) branch
FragmentToken(token) ==
    /\ Receive(token)
    /\ ~falsy(token)
    /\ token.kind = "FunctionFragment"
    /\ function_buffer' = AppendFragment(function_buffer, token.text)
    /\ yielded' = <<>>
    /\ UNCHANGED <<sentence_endings, get_functions, buffer,
                   prev_ends_with_money, pc, out, seen_list_item>>
    /\ UNCHANGED helper_vars

\* gen is exhausted: the statements after the loop, then the generator returns
EndOfStream ==
    /\ pc = "loop"
    /\ pc' = "done"
    /\ yielded' = EndOfStreamFlush(buffer, function_buffer, get_functions)
    /\ out' = out \o EndOfStreamFlush(buffer, function_buffer, get_functions)
    /\ UNCHANGED <<sentence_endings, get_functions, buffer, function_buffer,
                   prev_ends_with_money, consumed, seen_list_item>>
    /\ UNCHANGED helper_vars

Next ==
    \/ \E token \in Tokens : SkipEmpty(token)
    \/ \E token \in Tokens : StrToken(token)
    \/ \E token \in Tokens : FragmentToken(token)
    \/ EndOfStream

Spec == Init /\ [][Next]_vars

\* the generator called with the default sentence_endings
InitDefault == Init /\ sentence_endings = SENTENCE_ENDINGS

\* the generator is driven until it returns: its consumer keeps iterating and
\* a finite gen ends
SpecFair == InitDefault /\ [][Next]_vars /\ WF_vars(Next)

(***************************************************************************)
(* The buffer helpers.                                                     *)
(***************************************************************************)
find_last_punctuation(buf) ==
    LET indices == [i \in 1..Len(SENTENCE_ENDINGS) |-> rfind(buf, SENTENCE_ENDINGS[i])]
    IN  IF Len(indices) = 0 THEN None
        ELSE IntVal(SetMax({indices[i] : i \in 1..Len(indices)}))

get_sentence_from_buffer(buf) ==
    LET last_punctuation == find_last_punctuation(buf)
    IN  IF Truthy(last_punctuation)
        THEN << Str(Slice(buf, 0, last_punctuation.value + 1)),
                Str(Slice(buf, last_punctuation.value + 1, Len(buf))) >>
        ELSE << None, None >>

HelperAlphabet == {"a", ".", "!", "\n"}

RECURSIVE StringsUpTo(_, _)
StringsUpTo(alphabet, n) ==
    IF n = 0 THEN { <<>> }
    ELSE LET shorter == StringsUpTo(alphabet, n - 1)
         IN  shorter \cup {Append(s, c) : s \in shorter, c \in alphabet}

HelperBuffers == StringsUpTo(HelperAlphabet, MaxBufLen)

InitHelpers ==
    /\ sentence_endings = SENTENCE_ENDINGS
    /\ get_functions = FALSE
    /\ buffer = <<>>
    /\ function_buffer = <<>>
    /\ prev_ends_with_money = FALSE
    /\ pc = "loop"
    /\ consumed = <<>>
    /\ out = <<>>
    /\ yielded = <<>>
    /\ seen_list_item = FALSE
    /\ helper_buffer \in HelperBuffers
    /\ helper_result = NotCalled

CallFindLastPunctuation ==
    /\ helper_result = NotCalled
    /\ helper_result' = [fn |-> "find_last_punctuation",
                         ret |-> find_last_punctuation(helper_buffer)]
    /\ UNCHANGED helper_buffer
    /\ UNCHANGED segmenter_vars

CallGetSentenceFromBuffer ==
    /\ helper_result = NotCalled
    /\ helper_result' = [fn |-> "get_sentence_from_buffer",
                         ret |-> get_sentence_from_buffer(helper_buffer)]
    /\ UNCHANGED helper_buffer
    /\ UNCHANGED segmenter_vars

NextHelpers == CallFindLastPunctuation \/ CallGetSentenceFromBuffer

SpecHelpers == InitHelpers /\ [][NextHelpers]_vars

(***************************************************************************)
(* Operators the properties are stated with.                               *)
(***************************************************************************)
Last(s) == s[Len(s)]

RECURSIVE Flatten(_)
\* the concatenation of a sequence of strings
Flatten(ss) == IF ss = <<>> THEN <<>> ELSE Head(ss) \o Flatten(Tail(ss))

\* the texts of the tokens of one kind, in arrival order
TextsOf(stream, kind) ==
    LET picked == SelectSeq(stream, LAMBDA u : u.kind = kind)
    IN  [i \in 1..Len(picked) |-> picked[i].text]

\* the concatenation of all input text
InputText(stream) == Flatten(TextsOf(stream, "str"))

\* the concatenation of all fragment texts
FragmentText(stream) == Flatten(TextsOf(stream, "FunctionFragment"))

\* the yielded utterances, as strings
Utterances(o) == TextsOf(o, "str")

IsBlank(c) == c \in {" ", "\t", "\n", "\r", "\f"}

RECURSIVE DropLeadingBlanks(_)
DropLeadingBlanks(s) ==
    IF s # <<>> /\ IsBlank(Head(s)) THEN DropLeadingBlanks(Tail(s)) ELSE s

RECURSIVE RebuildsModuloTrim(_, _)
\* text is utts[1], utts[2], ... in this order, with nothing but whitespace
\* before, between and after them
RebuildsModuloTrim(text, utts) ==
    LET rest == DropLeadingBlanks(text)
    IN  IF utts = <<>> THEN rest = <<>>
        ELSE /\ Len(Head(utts)) <= Len(rest)
             /\ SubSeq(rest, 1, Len(Head(utts))) = Head(utts)
             /\ RebuildsModuloTrim(SubSeq(rest, Len(Head(utts)) + 1, Len(rest)),
                                   Tail(utts))

(***************************************************************************)
(* C1: when the stream has ended, the yielded utterances, in order, are    *)
(* the input text with only whitespace removed, and only at the two ends   *)
(* of each flushed buffer: no other character is dropped, duplicated or    *)
(* reordered.                                                              *)
(***************************************************************************)
ThmC1 ==
    pc = "done" => RebuildsModuloTrim(InputText(consumed), Utterances(out))

\* a finished run with several utterances and some whitespace trimmed away
WitC1 ==
    /\ pc = "done"
    /\ sentence_endings = SENTENCE_ENDINGS
    /\ Len(Utterances(out)) >= 3
    /\ Len(Flatten(Utterances(out))) < Len(InputText(consumed))

(***************************************************************************)
(* C2: every yielded utterance is non-empty and neither starts nor ends    *)
(* with whitespace, whichever of the three yields produced it.             *)
(***************************************************************************)
ThmC2 ==
    \A i \in 1..Len(out) :
        out[i].kind = "str" =>
            /\ out[i].text # <<>>
            /\ ~IsBlank(Head(out[i].text))
            /\ ~IsBlank(Last(out[i].text))

\* "$5.", " .", " a": the second token makes the money-boundary flush and
\* the boundary flush yield, the end of the stream yields the rest
WitC2 ==
    /\ pc = "done"
    /\ sentence_endings = SENTENCE_ENDINGS
    /\ consumed = << Str(<<"$", "5", ".">>), Str(<<" ", ".">>), Str(<<" ", "a">>) >>
    /\ out = << Str(<<"$", "5", ".">>), Str(<<".">>), Str(<<"a">>) >>

(***************************************************************************)
(* C3: with the default endings, the chunks "That costs $5", ".00 for",    *)
(* " one." yield exactly the one utterance "That costs $5.00 for one.".    *)
(* The code yields "That costs $5.00 for" at the second chunk: the chunk   *)
(* holds a "." and the buffer does not end like money.                     *)
(***************************************************************************)
CexC3 ==
    (pc = "done" /\ sentence_endings = SENTENCE_ENDINGS /\ consumed = MoneyChunks)
        => out = << Str(InputText(MoneyChunks)) >>

(***************************************************************************)
(* C4, as claimed: a token makes the generator yield at most once before   *)
(* the next token is requested, the end of the stream at most twice        *)
(* (stated for the default endings).                                       *)
(***************************************************************************)
CexC4 ==
    sentence_endings = SENTENCE_ENDINGS =>
        /\ pc = "loop" => Len(yielded) <= 1
        /\ pc = "done" => Len(yielded) <= 2

(***************************************************************************)
(* C4, amended: an empty token or a fragment yields nothing; a str token   *)
(* yields at most once, except that a token starting with a space which    *)
(* arrives while prev_ends_with_money is true may yield twice (the         *)
(* money-boundary flush, then the boundary flush); the end of the stream   *)
(* yields at most an utterance followed by a function call.                *)
(***************************************************************************)
ThmC4 ==
    [][ /\ (pc = "loop" /\ pc' = "loop") =>
              /\ Len(yielded') <= 2
              /\ Last(consumed').kind = "FunctionFragment" => yielded' = <<>>
              /\ Last(consumed').text = <<>> => yielded' = <<>>
              /\ Len(yielded') = 2 =>
                    /\ prev_ends_with_money
                    /\ Last(consumed').kind = "str"
                    /\ Head(Last(consumed').text) = " "
                    /\ \A i \in 1..2 : yielded'[i].kind = "str"
        /\ (pc = "loop" /\ pc' = "done") =>
              /\ Len(yielded') <= 2
              /\ Len(yielded') = 2 =>
                    /\ yielded'[1].kind = "str"
                    /\ yielded'[2].kind = "FunctionCall"
        /\ out' = out \o yielded'
      ]_vars

\* one token has just made the generator yield twice
WitC4 == pc = "loop" /\ Len(yielded) = 2

(***************************************************************************)
(* C5: with an empty list of endings, as long as the buffer never looked   *)
(* like a list item, nothing is yielded while tokens are consumed.  The    *)
(* empty list makes the empty pattern, which is found in every token, so   *)
(* the code flushes at every token.                                        *)
(***************************************************************************)
CexC5 ==
    (sentence_endings = <<>> /\ ~seen_list_item /\ pc = "loop") => out = <<>>

(***************************************************************************)
(* C6: a FunctionCall is yielded at most once, only after the stream has   *)
(* ended, only with get_functions true and function_buffer non-empty, and  *)
(* as the last thing yielded: only utterances precede it.                  *)
(***************************************************************************)
ThmC6 ==
    \A i \in 1..Len(out) :
        out[i].kind = "FunctionCall" =>
            /\ i = Len(out)
            /\ pc = "done"
            /\ get_functions
            /\ function_buffer # <<>>
            /\ \A j \in 1..(i - 1) : out[j].kind = "str"

\* a finished run that yielded utterances and then the function call
WitC6 ==
    /\ pc = "done"
    /\ Len(out) >= 3
    /\ Last(out).kind = "FunctionCall"

(***************************************************************************)
(* C7, as claimed: with get_functions true and fragments among the tokens, *)
(* the output ends with exactly one FunctionCall, whose text is the        *)
(* concatenation of the fragment texts in arrival order.                   *)
(***************************************************************************)
CexC7 ==
    (/\ pc = "done"
     /\ get_functions
     /\ \E i \in 1..Len(consumed) : consumed[i].kind = "FunctionFragment")
        => /\ out # <<>>
           /\ Last(out) = FunctionCall(FragmentText(consumed))
           /\ Cardinality({i \in 1..Len(out) : out[i].kind = "FunctionCall"}) = 1

(***************************************************************************)
(* C7, amended: with get_functions true, when the concatenation of the     *)
(* fragment texts is non-empty the output ends with exactly one            *)
(* FunctionCall carrying that concatenation, in arrival order, whatever    *)
(* was flushed in between; when it is empty no FunctionCall is yielded.    *)
(***************************************************************************)
ThmC7 ==
    (pc = "done" /\ get_functions) =>
        LET calls == {i \in 1..Len(out) : out[i].kind = "FunctionCall"}
        IN  IF FragmentText(consumed) # <<>>
            THEN /\ calls = {Len(out)}
                 /\ Last(out) = FunctionCall(FragmentText(consumed))
            ELSE calls = {}

\* two different fragments with a flushed utterance between them
WitC7 ==
    /\ pc = "done"
    /\ get_functions
    /\ Len(consumed) = 3
    /\ consumed[1].kind = "FunctionFragment"
    /\ consumed[2].kind = "str"
    /\ consumed[3].kind = "FunctionFragment"
    /\ consumed[1].text # <<>>
    /\ consumed[3].text # <<>>
    /\ consumed[1].text # consumed[3].text
    /\ Len(out) = 2
    /\ Len(yielded) = 1

(***************************************************************************)
(* The helpers: which characters end a sentence, and where the last is.    *)
(***************************************************************************)
IsTerminator(c) == c \in {".", "!", "?", "\n"}

HasTerminator(buf) == \E i \in 1..Len(buf) : IsTerminator(buf[i])

\* the number of characters up to and including the rightmost terminator
LastTerminator(buf) ==
    CHOOSE i \in 1..Len(buf) :
        IsTerminator(buf[i]) /\ \A j \in (i + 1)..Len(buf) : ~IsTerminator(buf[j])

(***************************************************************************)
(* C8: for a buffer with a terminator at any position, the first one       *)
(* included, get_sentence_from_buffer returns (completed, remainder) with  *)
(* completed + remainder = buffer and completed ending with the rightmost  *)
(* terminator.  The code tests the index for truth, so a buffer whose only *)
(* terminator is its first character gets (None, None).                    *)
(***************************************************************************)
CexC8 ==
    (helper_result.fn = "get_sentence_from_buffer" /\ HasTerminator(helper_buffer))
        => /\ helper_result.ret[1].kind = "str"
           /\ helper_result.ret[2].kind = "str"
           /\ helper_result.ret[1].text \o helper_result.ret[2].text = helper_buffer
           /\ Len(helper_result.ret[1].text) = LastTerminator(helper_buffer)

(***************************************************************************)
(* C9: for a buffer without terminator, the empty one included,            *)
(* get_sentence_from_buffer returns (None, None).  The code gets -1 from   *)
(* find_last_punctuation, which is true, and returns ("", buffer).         *)
(***************************************************************************)
CexC9 ==
    (helper_result.fn = "get_sentence_from_buffer" /\ ~HasTerminator(helper_buffer))
        => /\ helper_result.ret[1].kind = "NoneType"
           /\ helper_result.ret[2].kind = "NoneType"

(***************************************************************************)
(* C10: find_last_punctuation returns the highest index at which a         *)
(* terminator occurs, and None when the buffer holds none.  The code       *)
(* returns -1, the maximum of the rfind results, when it holds none.       *)
(***************************************************************************)
CexC10 ==
    helper_result.fn = "find_last_punctuation" =>
        IF HasTerminator(helper_buffer)
        THEN /\ helper_result.ret.kind = "int"
             /\ helper_result.ret.value = LastTerminator(helper_buffer) - 1
        ELSE helper_result.ret.kind = "NoneType"

(***************************************************************************)
(* C11: a token that is an empty string or a fragment with empty text      *)
(* changes none of buffer, function_buffer and prev_ends_with_money and    *)
(* yields nothing; and a stream of such tokens only has yielded nothing    *)
(* when it has ended, get_functions or not.                                *)
(***************************************************************************)
ThmC11 ==
    [][ /\ (pc = "loop" /\ pc' = "loop" /\ Last(consumed').text = <<>>) =>
              /\ buffer' = buffer
              /\ function_buffer' = function_buffer
              /\ prev_ends_with_money' = prev_ends_with_money
              /\ yielded' = <<>>
              /\ out' = out
        /\ (pc' = "done" /\ \A i \in 1..Len(consumed') : consumed'[i].text = <<>>) =>
              out' = <<>>
      ]_vars

\* an empty fragment has just been consumed with text buffered, the money
\* flag set and fragment text collected
WitC11 ==
    /\ pc = "loop"
    /\ consumed # <<>>
    /\ Last(consumed) = FunctionFragment(<<>>)
    /\ buffer # <<>>
    /\ prev_ends_with_money
    /\ function_buffer # <<>>

(***************************************************************************)
(* Shapes of a buffer and of a step, stated independently of the regular   *)
(* expressions.                                                            *)
(***************************************************************************)
IsDigit(c) == c \in {"0", "1", "2", "3", "4", "5", "6", "7", "8", "9"}

RECURSIVE LeadingDigits(_)
\* how many digits s starts with
LeadingDigits(s) ==
    IF s # <<>> /\ IsDigit(Head(s)) THEN 1 + LeadingDigits(Tail(s)) ELSE 0

\* s starts with one or more digits followed by a space or a period
StartsWithListMarker(s) ==
    /\ LeadingDigits(s) >= 1
    /\ Len(s) > LeadingDigits(s)
    /\ s[LeadingDigits(s) + 1] \in {" ", "."}

RECURSIVE TrailingDigits(_)
\* how many digits s ends with
TrailingDigits(s) ==
    IF s # <<>> /\ IsDigit(Last(s))
    THEN 1 + TrailingDigits(SubSeq(s, 1, Len(s) - 1)) ELSE 0

\* s without one final newline
WithoutFinalNewline(s) ==
    IF s # <<>> /\ Last(s) = "\n" THEN SubSeq(s, 1, Len(s) - 1) ELSE s

\* s, one final newline apart, ends with a dollar sign, one or more digits
\* and one more character that is not a newline
EndsLikeMoney(s) ==
    LET t == WithoutFinalNewline(s)
        front == SubSeq(t, 1, Len(t) - 1)
    IN  /\ Len(t) >= 3
        /\ Last(t) # "\n"
        /\ \E d \in 1..TrailingDigits(front) :
              d < Len(front) /\ front[Len(front) - d] = "$"

RECURSIVE DropTrailingBlanks(_)
DropTrailingBlanks(s) ==
    IF s # <<>> /\ IsBlank(Last(s))
    THEN DropTrailingBlanks(SubSeq(s, 1, Len(s) - 1)) ELSE s

\* s without its leading and trailing whitespace
Trimmed(s) == DropTrailingBlanks(DropLeadingBlanks(s))

HasNewline(s) == \E i \in 1..Len(s) : s[i] = "\n"

\* the step consumes a non-empty str token
IsStrStep ==
    /\ pc = "loop"
    /\ pc' = "loop"
    /\ Last(consumed').kind = "str"
    /\ Last(consumed').text # <<>>

\* the money-boundary flush applies to the token of the step
IsMoneyBoundary == prev_ends_with_money /\ Head(Last(consumed').text) = " "

\* the buffer of the step once its token is appended
Appended == (IF IsMoneyBoundary THEN <<>> ELSE buffer) \o Last(consumed').text

(***************************************************************************)
(* C12: when the buffer with the new token appended starts with digits and *)
(* a space or period, the boundary flush happens exactly when the token    *)
(* holds a newline and the buffer does not end like money; '.', '!' and    *)
(* '?' do not count.  And the chunks "1.", " Buy milk\n", "2.",            *)
(* " Buy eggs\n" yield exactly "1. Buy milk" and "2. Buy eggs".            *)
(***************************************************************************)
ThmC12 ==
    [][ /\ (IsStrStep /\ StartsWithListMarker(Appended)) =>
              IF HasNewline(Last(consumed').text) /\ ~EndsLikeMoney(Appended)
              THEN /\ buffer' = <<>>
                   /\ yielded' # <<>>
                   /\ Last(yielded') = Str(Trimmed(Appended))
              ELSE /\ buffer' = Appended
                   /\ yielded' = IF IsMoneyBoundary
                                 THEN << Str(Trimmed(buffer)) >> ELSE <<>>
        /\ (pc' = "done" /\ consumed' = ListChunks) =>
              out' = << Str(<<"1", ".", " ", "B", "u", "y", " ", "m", "i", "l", "k">>),
                        Str(<<"2", ".", " ", "B", "u", "y", " ", "e", "g", "g", "s">>) >>
      ]_vars

\* the four chunks have been consumed and the stream has ended
WitC12 == pc = "done" /\ consumed = ListChunks /\ Len(out) = 2

\* one of the configured sentence endings occurs in s
HasConfiguredEnding(s) ==
    \E e \in 1..Len(sentence_endings) : \E i \in 1..Len(s) :
        /\ i + Len(sentence_endings[e]) - 1 <= Len(s)
        /\ SubSeq(s, i, i + Len(sentence_endings[e]) - 1) = sentence_endings[e]

\* what the money-boundary flush of the step yields
MoneyBoundaryYield == IF IsMoneyBoundary THEN << Str(Trimmed(buffer)) >> ELSE <<>>

(***************************************************************************)
(* C13: when the buffer with the new token appended is no list item, the   *)
(* boundary flush happens exactly when the token holds a configured        *)
(* ending and the buffer does not end like money; it yields the trimmed    *)
(* buffer (if not empty) and empties the buffer; otherwise the buffer      *)
(* keeps the token and the boundary flush yields nothing.  And "Hello",    *)
(* " there.", " How are you?" yield "Hello there." and "How are you?".     *)
(* With an empty list of endings no token holds a configured ending, but   *)
(* the code flushes at every token (see C5).                               *)
(***************************************************************************)
CexC13 ==
    [][ /\ (IsStrStep /\ ~StartsWithListMarker(Appended)) =>
              IF HasConfiguredEnding(Last(consumed').text) /\ ~EndsLikeMoney(Appended)
              THEN /\ buffer' = <<>>
                   /\ yielded' = MoneyBoundaryYield
                                 \o (IF Trimmed(Appended) # <<>>
                                     THEN << Str(Trimmed(Appended)) >> ELSE <<>>)
              ELSE /\ buffer' = Appended
                   /\ yielded' = MoneyBoundaryYield
        /\ (pc' = "done" /\ consumed' = PlainChunks /\ sentence_endings = SENTENCE_ENDINGS) =>
              out' = << Str(<<"H", "e", "l", "l", "o", " ", "t", "h", "e", "r", "e", ".">>),
                        Str(<<"H", "o", "w", " ", "a", "r", "e", " ", "y", "o", "u", "?">>) >>
      ]_vars

RECURSIVE IsMergingOf(_, _)
\* merged is utts with groups of adjacent utterances concatenated
IsMergingOf(merged, utts) ==
    IF merged = <<>> THEN utts = <<>>
    ELSE \E k \in 1..Len(utts) :
            /\ Flatten(SubSeq(utts, 1, k)) = Head(merged)
            /\ IsMergingOf(Tail(merged), SubSeq(utts, k + 1, Len(utts)))

\* what a second run yields for the concatenated utterances as one token
SecondPass ==
    collate_response_async(<< Str(Flatten(Utterances(out))) >>,
                           sentence_endings, get_functions)

(***************************************************************************)
(* C14: when the stream has ended, running the generator again on the      *)
(* concatenation of the yielded utterances, given as one token, yields     *)
(* utterances only, and they are the first run's utterances, or these      *)
(* with adjacent ones concatenated: nothing is added, lost or reordered.   *)
(***************************************************************************)
ThmC14 ==
    pc = "done" =>
        /\ \A i \in 1..Len(SecondPass) : SecondPass[i].kind = "str"
        /\ IsMergingOf(Utterances(SecondPass), Utterances(out))

\* a run with three utterances, which the second run yields as one
WitC14 ==
    /\ pc = "done"
    /\ Len(Utterances(out)) = 3
    /\ Len(SecondPass) = 1

\* s ends with a dollar sign, one or more digits, a period and exactly one
\* more character
EndsWithAmountPeriodAndOne(s) ==
    LET front == SubSeq(s, 1, Len(s) - 2)
    IN  /\ Len(s) >= 4
        /\ s[Len(s) - 1] = "."
        /\ \E d \in 1..TrailingDigits(front) :
              d < Len(front) /\ front[Len(front) - d] = "$"

(***************************************************************************)
(* C15, as claimed: the money flag computed for a str token is true        *)
(* exactly when the buffer with the token appended ends with a dollar      *)
(* sign, digits, a period and one more character, as in "$5.0".            *)
(***************************************************************************)
CexC15 ==
    [][ IsStrStep =>
            (prev_ends_with_money' <=> EndsWithAmountPeriodAndOne(Appended)) ]_vars

(***************************************************************************)
(* C15, amended: the money flag computed for a str token is true exactly   *)
(* when the buffer with the token appended, one final newline apart, ends  *)
(* with a dollar sign, one or more digits and exactly one more character,  *)
(* any but a newline: true for "$5.", "$50", "$5a", false for "$5" and     *)
(* "$5.0".                                                                 *)
(***************************************************************************)
ThmC15 ==
    [][ IsStrStep => (prev_ends_with_money' <=> EndsLikeMoney(Appended)) ]_vars

\* the flag is set on a buffer that ends with a digit, as "$55" does
WitC15 ==
    /\ pc = "loop"
    /\ prev_ends_with_money
    /\ buffer # <<>>
    /\ IsDigit(Last(buffer))

(***************************************************************************)
(* C16: when prev_ends_with_money is true and the str token starts with a  *)
(* space, the buffer as it was before the token, trimmed, is yielded       *)
(* first, and the token is appended to an empty buffer; otherwise nothing  *)
(* is yielded before the append: the step yields nothing, or only the      *)
(* buffer that already holds the token.                                    *)
(***************************************************************************)
ThmC16 ==
    [][ IsStrStep =>
            LET token == Last(consumed').text
            IN  IF prev_ends_with_money /\ Head(token) = " "
                THEN /\ yielded' # <<>>
                     /\ Head(yielded') = Str(Trimmed(buffer))
                     /\ out' = out \o yielded'
                     /\ buffer' \in {token, <<>>}
                     /\ Len(yielded') = 2 => yielded'[2] = Str(Trimmed(token))
                ELSE \/ yielded' = <<>> /\ buffer' = buffer \o token
                     \/ yielded' = <<>> /\ buffer' = <<>>
                                        /\ Trimmed(buffer \o token) = <<>>
                     \/ yielded' = << Str(Trimmed(buffer \o token)) >>
                                        /\ buffer' = <<>>
      ]_vars

\* "$5." then " a": "$5." is yielded and the buffer holds " a" alone
WitC16 ==
    /\ pc = "loop"
    /\ consumed = << Str(<<"$", "5", ".">>), Str(<<" ", "a">>) >>
    /\ out = << Str(<<"$", "5", ".">>) >>
    /\ buffer = <<" ", "a">>

(***************************************************************************)
(* C17: a FunctionFragment token appends its text to function_buffer,      *)
(* leaves buffer and prev_ends_with_money as they were and yields          *)
(* nothing; so a money flag that is set is still set after fragments, and  *)
(* the next str token that starts with a space flushes the buffer.         *)
(***************************************************************************)
ThmC17 ==
    [][ /\ (pc = "loop" /\ pc' = "loop" /\ Last(consumed').kind = "FunctionFragment") =>
              /\ function_buffer' = function_buffer \o Last(consumed').text
              /\ buffer' = buffer
              /\ prev_ends_with_money' = prev_ends_with_money
              /\ yielded' = <<>>
              /\ out' = out
        /\ (/\ IsStrStep
            /\ consumed # <<>>
            /\ Last(consumed).kind = "FunctionFragment"
            /\ IsMoneyBoundary) =>
              /\ yielded' # <<>>
              /\ Head(yielded') = Str(Trimmed(buffer))
      ]_vars

\* "$5.", a fragment, then " a": the flag set by "$5." makes " a" flush
WitC17 ==
    /\ pc = "loop"
    /\ Len(consumed) = 3
    /\ consumed[1] = Str(<<"$", "5", ".">>)
    /\ consumed[2].kind = "FunctionFragment"
    /\ consumed[2].text # <<>>
    /\ consumed[3] = Str(<<" ", "a">>)
    /\ out = << Str(<<"$", "5", ".">>) >>
    /\ function_buffer = consumed[2].text

(***************************************************************************)
(* C18: the generator returns for every finite stream; when the stream     *)
(* ends it yields the trimmed buffer as one last utterance exactly when    *)
(* that is not empty, and before the function call if there is one, so     *)
(* what is still buffered at the end of the stream is yielded.             *)
(***************************************************************************)
ThmC18 ==
    /\ <>(pc = "done")
    /\ [][ (pc = "loop" /\ pc' = "done") =>
              LET last == IF Trimmed(buffer) # <<>>
                          THEN << Str(Trimmed(buffer)) >> ELSE <<>>
              IN  /\ Len(yielded') >= Len(last)
                  /\ SubSeq(yielded', 1, Len(last)) = last
                  /\ \A i \in (Len(last) + 1)..Len(yielded') :
                        yielded'[i].kind = "FunctionCall"
                  /\ out' = out \o yielded'
         ]_vars

\* the stream has ended with text still buffered and fragments collected:
\* the last utterance, then the function call
WitC18 ==
    /\ pc = "done"
    /\ Len(out) >= 3
    /\ Len(yielded) = 2
    /\ yielded[1] = Str(Trimmed(buffer))

(***************************************************************************)
(* C19: between tokens, when prev_ends_with_money is true the buffer was   *)
(* not flushed by the last str token: it holds a dollar sign followed by   *)
(* a digit, so it is not empty once trimmed; and an empty buffer, as a     *)
(* boundary flush leaves it, goes with a false prev_ends_with_money.       *)
(***************************************************************************)
ThmC19 ==
    /\ prev_ends_with_money =>
          /\ \E i \in 1..(Len(buffer) - 1) : buffer[i] = "$" /\ IsDigit(buffer[i + 1])
          /\ Trimmed(buffer) # <<>>
    /\ buffer = <<>> => ~prev_ends_with_money

\* the flag is set on a buffer that was begun after an earlier flush
WitC19 ==
    /\ pc = "loop"
    /\ prev_ends_with_money
    /\ out # <<>>
    /\ Last(consumed).kind = "str"

====
